---- MODULE Spec2Model ----
(***************************************************************************)
(* DoReFa-Net quantizers of examples/DoReFa-Net/svhn-digit-dorefa.py:      *)
(* get_dorefa (quantize, fw, fa, fg, grad_fg and the one-time registration *)
(* of the "FGGrad" gradient rule) and Model._build_graph's patching of     *)
(* tf.get_variable.                                                        *)
(*                                                                         *)
(* Numbers are exact rationals <<p, q>> with q > 0; <<0, 0>> is NaN.       *)
(* Tensors are sequences of integers (weights, activations) or sequences   *)
(* of samples (gradients: axis 0 is the batch axis, the other axes are     *)
(* flattened into the sample).                                             *)
(***************************************************************************)
EXTENDS Integers, Sequences, FiniteSets, TLC

VARIABLES
    BITW, BITA, BITG,     \* the module globals read by _build_graph
    GRAD_DEFINED,         \* the module global guarding the registration
    registry,             \* tf's gradient registry entry "FGGrad": the bitG
                          \* each registered grad_fg closes over, in order
    tf_get_variable,      \* the binding of tf.get_variable: the stack of fw
                          \* wrappers around the original (<<>> = original)
    old_get_variable,     \* _build_graph's local of that name
    fns,                  \* the (fw, fa, fg) closures last returned
    ncalls,               \* number of get_dorefa calls so far
    pc,                   \* "idle", "building" or "crashed"
    arg,                  \* the tensor about to be passed to a transform
    last                  \* what the last operation did and returned

vars == <<BITW, BITA, BITG, GRAD_DEFINED, registry, tf_get_variable,
          old_get_variable, fns, ncalls, pc, arg, last>>

-----------------------------------------------------------------------------
(* Bounds of the model *)

MaxBits == 2        \* quantizing bit-widths 1..MaxBits (and the defaults)
MaxAbs == 2         \* tensor elements range over -MaxAbs..MaxAbs
MaxLen == 2         \* weight/activation vectors have 1..MaxLen elements
NoiseSteps == 1     \* dither noise is m/(2*n*NoiseSteps), |m| <= NoiseSteps
GridDen == 10       \* quantize inputs are a/d with d in 1..GridDen
MaxCalls == 3       \* get_dorefa calls per behaviour

(* Program constants *)

DefaultBITW == 1
DefaultBITA == 2
DefaultBITG == 4
NoQuant == 32

BitWidths == (1..MaxBits) \cup {DefaultBITW, DefaultBITA, DefaultBITG, NoQuant}

Triples == [bitW : BitWidths, bitA : BitWidths, bitG : BitWidths]

NoFns == [bitW |-> 0, bitA |-> 0, bitG |-> 0]

-----------------------------------------------------------------------------
(* Arithmetic *)

NaN == <<0, 0>>

Abs(a) == IF a < 0 THEN 0 - a ELSE a

Max2(a, b) == IF a < b THEN b ELSE a

Min2(a, b) == IF a < b THEN a ELSE b

Sign(a) == IF a < 0 THEN 0 - 1 ELSE IF a = 0 THEN 0 ELSE 1

Pow2(k) == 2 ^ k

RECURSIVE SumAbs(_)
SumAbs(x) == IF x = <<>> THEN 0 ELSE Abs(Head(x)) + SumAbs(Tail(x))

RECURSIVE MaxAbsOf(_)
MaxAbsOf(x) == IF x = <<>> THEN 0 ELSE Max2(Abs(Head(x)), MaxAbsOf(Tail(x)))

RatEq(a, b) == a[2] # 0 /\ b[2] # 0 /\ a[1] * b[2] = b[1] * a[2]

RatLe(a, b) == a[1] * b[2] <= b[1] * a[2]

RatAbs(a) == <<Abs(a[1]), a[2]>>

\* tf.round on floats is floor(x + 0.5)
Round(r) == (2 * r[1] + r[2]) \div (2 * r[2])

ClipByValue01(r) == IF r[1] < 0 THEN <<0, 1>>
                    ELSE IF r[1] > r[2] THEN <<1, 1>> ELSE r

\* tanh to four decimals, in units of 1/10000, odd and saturating
Tanh(a) == LET m == Abs(a)
               t == IF m = 0 THEN 0
                    ELSE IF m = 1 THEN 7616
                    ELSE IF m = 2 THEN 9640
                    ELSE IF m = 3 THEN 9951
                    ELSE IF m = 4 THEN 9993
                    ELSE 10000
           IN  Sign(a) * t

-----------------------------------------------------------------------------
(* get_dorefa's inner functions; the closed-over bit-width is a parameter *)

Levels(k) == Pow2(k) - 1

QuantizeOffByOne(x, k) == <<Round(<<x[1] * Levels(k), x[2]>>) + 1, Levels(k)>>

QuantizeTruncating(x, k) == <<(x[1] * Levels(k)) \div x[2], Levels(k)>>

\* round(x * n) / n ; with k = 32 the float32 product x * n (n = 2^32) is
\* integral for every x of the model (x = 0 or |x| >= 2^-8), so that
\* rounding changes nothing and the quotient is x again.
quantize(x, k) ==
    IF k = NoQuant THEN x
    ELSE <<Round(<<x[1] * Levels(k), x[2]>>), Levels(k)>>

Lift(x) == [i \in 1..Len(x) |-> <<x[i], 1>>]

FwNoIdentity(x, bitW) ==
    LET s == SumAbs(x) IN
    [i \in 1..Len(x) |-> IF s = 0 THEN NaN ELSE <<Sign(x[i]) * s, Len(x)>>]

fw(x, bitW) ==
    IF bitW = NoQuant THEN Lift(x)
    ELSE IF bitW = 1 THEN
        \* E = mean(|x|) = s / Len(x); sign(x / E) * E
        LET s == SumAbs(x) IN
        [i \in 1..Len(x) |->
            IF s = 0 THEN NaN ELSE <<Sign(x[i] * Len(x) * s) * s, Len(x)>>]
    ELSE
        LET t == [i \in 1..Len(x) |-> Tanh(x[i])]
            m == MaxAbsOf(t)
        IN  [i \in 1..Len(x) |->
                IF m = 0 THEN NaN
                ELSE LET q == quantize(<<t[i] + m, 2 * m>>, bitW)
                     IN  <<2 * q[1] - q[2], q[2]>>]

fa(x, bitA) ==
    IF bitA = NoQuant THEN Lift(x)
    ELSE [i \in 1..Len(x) |-> quantize(<<x[i], 1>>, bitA)]

cabs(x) == [i \in 1..Len(x) |-> Min2(1, Abs(x[i]))]

activate(x, bitA) == fa(cabs(x), bitA)

\* fg: the forward value, and whether the value is a new Identity op whose
\* gradient is overridden by "FGGrad"
fg(x, bitG) ==
    IF bitG = NoQuant THEN [value |-> Lift(x), override |-> FALSE]
    ELSE [value |-> Lift(x), override |-> TRUE]

-----------------------------------------------------------------------------
(* grad_fg, the backward rule registered as "FGGrad" *)

\* x.get_shape().ndims is None (<<>>) or the rank (<<r>>)
AssertNotChecked(ndims) == TRUE

RankKnown(ndims) == ndims # <<>>

ReduceMaxAllAxes(samples, s) ==
    MaxAbsOf([j \in 1..Len(samples) |-> MaxAbsOf(samples[j])])

\* tf.reduce_max(tf.abs(x), list(range(1, rank)), keep_dims=True) at sample s
ReduceMax(samples, s) == MaxAbsOf(samples[s])

\* tf.random_uniform(minval=-0.5/n, maxval=0.5/n): m / (2 * n * NoiseSteps)
NoiseIndex == (0 - NoiseSteps)..NoiseSteps

\* The values the element xi of a sample with maximum maxx can come back as,
\* with noise element m and closed-over bit-width k.  With maxx = 0 the
\* quotient x / maxx is NaN, which clip_by_value passes on or replaces by a
\* bound depending on the kernel: the product with maxx is NaN or 0.  With
\* k = 32 the noise (at most 2^-33) is absorbed by the float32 sum and
\* quantize returns the sum, so that the result is x again.
GradFgElem(xi, maxx, m, k) ==
    IF maxx = 0 THEN {NaN, <<0, 1>>}
    ELSE IF k = NoQuant THEN {<<xi, 1>>}
    ELSE LET n == Levels(k)
             t == <<(xi + maxx) * n * NoiseSteps + m * maxx,
                    2 * maxx * n * NoiseSteps>>
             q == quantize(ClipByValue01(t), k)
         IN  {<<(2 * q[1] - q[2]) * maxx, q[2]>>}

grad_fg(x, s, i, m, k) == GradFgElem(x.samples[s][i], ReduceMax(x.samples, s), m, k)

-----------------------------------------------------------------------------
(* Inputs *)

Elems == (0 - MaxAbs)..MaxAbs

Vectors == UNION {[1..l -> Elems] : l \in 1..MaxLen}

\* the weight tensor of the documented example
ExampleX == <<0 - 2, 0 - 1, 0, 1, 2>>

WeightInputs == Vectors \cup {ExampleX}

Fractions == {<<a, d>> : a \in 0..GridDen, d \in 1..GridDen}

\* gradients of shape [2] and [2, 2], of known or unknown static rank
GradTensors ==
    {[ndims |-> nd, samples |-> <<<<a>>, <<b>>>>] :
        nd \in {<<>>, <<1>>}, a \in Elems, b \in Elems}
    \cup
    {[ndims |-> nd, samples |-> <<<<a, b>>, <<c, d>>>>] :
        nd \in {<<>>, <<2>>}, a \in Elems, b \in Elems, c \in Elems, d \in Elems}

ApiGradTensors ==
    {[ndims |-> nd, samples |-> <<<<1, 2>>, <<0 - 1, 0>>>>] : nd \in {<<>>, <<2>>}}
    \cup
    {[ndims |-> nd, samples |-> <<<<0 - 2>>, <<1>>>>] : nd \in {<<>>, <<1>>}}

NoArg == [ndims |-> <<>>, samples |-> <<>>]

NoOutput == <<>>

-----------------------------------------------------------------------------
(* Names, as sequences of characters *)

Digit == <<"0", "1", "2", "3", "4", "5", "6">>

conv(i) == <<"c", "o", "n", "v", Digit[i + 1]>>

bn(i) == <<"b", "n", Digit[i + 1]>>

fc1 == <<"f", "c", "1">>

NameW == <<"W">>

NameB == <<"b">>

NameBeta == <<"b", "e", "t", "a">>

NameGamma == <<"g", "a", "m", "m", "a">>

NameGlobalStep == <<"g", "l", "o", "b", "a", "l", "_", "s", "t", "e", "p">>

\* The get_variable calls of the script, as <<scope, name>>: conv0 and fc1
\* have a bias, conv1..conv6 are built with use_bias=False, BatchNorm has
\* beta and gamma, and the global step is created at the top level ("").
VarRequests ==
    {<<conv(i), NameW>> : i \in 0..6} \cup {<<conv(0), NameB>>}
    \cup {<<bn(i), nm>> : i \in 1..6, nm \in {NameBeta, NameGamma}}
    \cup {<<fc1, NameW>>, <<fc1, NameB>>}
    \cup {<<<<>>, NameGlobalStep>>}

TowerPrefixes == {<<>>, <<"t", "o", "w", "e", "r", "0", "/">>}


\* v.op.name of the variable that get_variable(name) creates in a scope
OpName(prefix, scope, name) ==
    prefix \o (IF scope = <<>> THEN <<>> ELSE scope \o <<"/">>) \o name

\* Python's  sub in s  on strings
Contains(sub, s) ==
    \E i \in 1..(Len(s) - Len(sub) + 1) : SubSeq(s, i, i + Len(sub) - 1) = sub

BinarizeLastLayerToo(name, opname) ==
    ~(name # NameW \/ Contains(<<"c", "o", "n", "v", "0">>, opname))

\* new_get_variable returns fw(v) rather than v
ShouldBinarize(name, opname) ==
    ~(name # NameW \/ Contains(<<"c", "o", "n", "v", "0">>, opname)
                   \/ Contains(<<"f", "c">>, opname))

-----------------------------------------------------------------------------
(* get_dorefa *)

RegisterAlways(defined) == TRUE

\* if not GRAD_DEFINED
ShouldRegister(defined) == ~defined

\* tf.RegisterGradient raises KeyError for a name that is registered already
Duplicate == ShouldRegister(GRAD_DEFINED) /\ registry # <<>>

\* the registry after  if not GRAD_DEFINED: @tf.RegisterGradient("FGGrad") ...
Registered(reg, bitG) ==
    IF ShouldRegister(GRAD_DEFINED) /\ reg = <<>> THEN Append(reg, bitG) ELSE reg

\* the body of get_dorefa(bitW, bitA, bitG), up to its return or its raise
get_dorefa(bitW, bitA, bitG) ==
    /\ ncalls < MaxCalls
    /\ ncalls' = ncalls + 1
    /\ registry' = Registered(registry, bitG)
    /\ GRAD_DEFINED' = IF Duplicate THEN GRAD_DEFINED ELSE TRUE
    /\ fns' = IF Duplicate THEN fns
              ELSE [bitW |-> bitW, bitA |-> bitA, bitG |-> bitG]
    /\ last' = IF Duplicate THEN [op |-> "KeyError"]
               ELSE [op |-> "get_dorefa",
                     registered |-> ShouldRegister(GRAD_DEFINED),
                     bitW |-> bitW, bitA |-> bitA, bitG |-> bitG]

\* a caller other than _build_graph
CallGetDorefa(bitW, bitA, bitG) ==
    /\ pc = "idle"
    /\ get_dorefa(bitW, bitA, bitG)
    /\ pc' = IF Duplicate THEN "crashed" ELSE pc
    /\ UNCHANGED <<BITW, BITA, BITG, tf_get_variable, old_get_variable, arg>>

-----------------------------------------------------------------------------
(* Model._build_graph *)

\* lines 92-103: get_dorefa with the globals, then the patch
BuildGraphBegin ==
    /\ pc = "idle"
    /\ get_dorefa(BITW, BITA, BITG)
    /\ pc' = IF Duplicate THEN "crashed" ELSE "building"
    /\ old_get_variable' = IF Duplicate THEN old_get_variable ELSE tf_get_variable
    /\ tf_get_variable' = IF Duplicate THEN tf_get_variable
                          ELSE Append(tf_get_variable, BITW)
    /\ UNCHANGED <<BITW, BITA, BITG, arg>>

\* a call of tf.get_variable(name) in a scope, by a layer or by anyone else:
\* every wrapper of the stack, innermost first, applies fw or does not
GetVariable(prefix, scope, name) ==
    /\ pc \in {"idle", "building"}
    /\ last' = [op |-> "get_variable", scope |-> scope, name |-> name,
                opname |-> OpName(prefix, scope, name), during |-> pc,
                fwApplied |-> IF ShouldBinarize(name, OpName(prefix, scope, name))
                              THEN tf_get_variable ELSE <<>>]
    /\ UNCHANGED <<BITW, BITA, BITG, GRAD_DEFINED, registry, tf_get_variable,
                   old_get_variable, fns, ncalls, pc, arg>>

\* a layer constructor raises: nothing catches it, line 148 is not reached
LayerRaises ==
    /\ pc = "building"
    /\ pc' = "crashed"
    /\ last' = [op |-> "Exception"]
    /\ UNCHANGED <<BITW, BITA, BITG, GRAD_DEFINED, registry, tf_get_variable,
                   old_get_variable, fns, ncalls, arg>>

NotRestored(old, cur) == cur

\* tf.get_variable = old_get_variable
RestoredBinding(old, cur) == old

\* line 148 and the rest of _build_graph
BuildGraphEnd ==
    /\ pc = "building"
    /\ tf_get_variable' = RestoredBinding(old_get_variable, tf_get_variable)
    /\ old_get_variable' = <<>>
    /\ pc' = "idle"
    /\ last' = [op |-> "_build_graph"]
    /\ UNCHANGED <<BITW, BITA, BITG, GRAD_DEFINED, registry, fns, ncalls, arg>>

-----------------------------------------------------------------------------
(* The backward pass through an op made by the current fg: tf looks "FGGrad" *)
(* up in the registry and calls it with the incoming gradient arg.  The step *)
(* records element (s, i) of the returned tensor, whose noise element is m.  *)

Backward(s, i, m) ==
    /\ pc = "idle"
    /\ registry # <<>>
    /\ fg(<<>>, fns.bitG).override
    /\ s \in 1..Len(arg.samples)
    /\ i \in 1..Len(arg.samples[s])
    /\ IF RankKnown(arg.ndims)
       THEN /\ \E out \in grad_fg(arg, s, i, m, registry[1]) :
                  last' = [op |-> "grad_fg", raised |-> FALSE, x |-> arg,
                           s |-> s, i |-> i, m |-> m, out |-> out]
            /\ pc' = pc
       ELSE /\ last' = [op |-> "grad_fg", raised |-> TRUE, x |-> arg,
                        s |-> s, i |-> i, m |-> m, out |-> NoOutput]
            /\ pc' = "crashed"
    /\ UNCHANGED <<BITW, BITA, BITG, GRAD_DEFINED, registry, tf_get_variable,
                   old_get_variable, fns, ncalls, arg>>

-----------------------------------------------------------------------------
(* Applying the returned transforms and quantize to arg *)

frame == <<BITW, BITA, BITG, GRAD_DEFINED, registry, tf_get_variable,
           old_get_variable, fns, ncalls, pc, arg>>

ApplyFw ==
    /\ last' = [op |-> "fw", out |-> fw(arg, fns.bitW)]
    /\ UNCHANGED frame

ApplyFa ==
    /\ last' = [op |-> "fa", out |-> fa(arg, fns.bitA)]
    /\ UNCHANGED frame

ApplyActivate ==
    /\ last' = [op |-> "activate", out |-> activate(arg, fns.bitA)]
    /\ UNCHANGED frame

ApplyFg ==
    /\ last' = [op |-> "fg", out |-> fg(arg, fns.bitG)]
    /\ UNCHANGED frame

Quantize(k) ==
    /\ last' = [op |-> "quantize", k |-> k, out |-> quantize(arg, k)]
    /\ UNCHANGED frame

QuantizeAgain ==
    /\ last.op = "quantize"
    /\ last' = [op |-> "quantize2", k |-> last.k, first |-> last.out,
                out |-> quantize(last.out, last.k)]
    /\ UNCHANGED frame

-----------------------------------------------------------------------------
(* Specifications *)

Fresh ==
    /\ GRAD_DEFINED = FALSE
    /\ registry = <<>>
    /\ tf_get_variable = <<>>
    /\ old_get_variable = <<>>
    /\ fns = NoFns
    /\ ncalls = 0
    /\ pc = "idle"
    /\ last = [op |-> "none"]

\* the state get_dorefa(t.bitW, t.bitA, t.bitG) leaves a fresh process in
AfterCall(t) ==
    /\ BITW = DefaultBITW /\ BITA = DefaultBITA /\ BITG = DefaultBITG
    /\ GRAD_DEFINED = TRUE
    /\ registry = <<t.bitG>>
    /\ tf_get_variable = <<>>
    /\ old_get_variable = <<>>
    /\ fns = t
    /\ ncalls = 1
    /\ pc = "idle"
    /\ last = [op |-> "get_dorefa", registered |-> TRUE,
               bitW |-> t.bitW, bitA |-> t.bitA, bitG |-> t.bitG]

\* The script: --dorefa sets the globals, then towers are built one after
\* the other while layers and others create variables.
Init ==
    /\ BITW \in BitWidths /\ BITA \in BitWidths /\ BITG \in BitWidths
    /\ arg = NoArg
    /\ Fresh

Next ==
    \/ BuildGraphBegin
    \/ \E p \in TowerPrefixes, r \in VarRequests : GetVariable(p, r[1], r[2])
    \/ LayerRaises
    \/ BuildGraphEnd

Spec == Init /\ [][Next]_vars

\* get_dorefa as a function any code of the process calls, with any triples
InitApi ==
    /\ BITW = DefaultBITW /\ BITA = DefaultBITA /\ BITG = DefaultBITG
    /\ arg \in ApiGradTensors
    /\ Fresh

NextApi ==
    \/ \E t \in Triples : CallGetDorefa(t.bitW, t.bitA, t.bitG)
    \/ \E s \in 1..2, i \in 1..2, m \in NoiseIndex : Backward(s, i, m)

SpecApi == InitApi /\ [][NextApi]_vars

\* fw, fa, fg of one get_dorefa call on a weight/activation tensor
InitFn ==
    /\ \E t \in Triples : AfterCall(t)
    /\ arg \in WeightInputs

NextFn == ApplyFw \/ ApplyFa \/ ApplyActivate \/ ApplyFg

SpecFn == InitFn /\ [][NextFn]_vars

\* quantize on a fraction
InitQuantize ==
    /\ AfterCall([bitW |-> DefaultBITW, bitA |-> DefaultBITA, bitG |-> DefaultBITG])
    /\ arg \in Fractions

NextQuantize ==
    \/ \E k \in BitWidths \ {NoQuant} : Quantize(k)
    \/ QuantizeAgain

SpecQuantize == InitQuantize /\ [][NextQuantize]_vars

\* grad_fg of one get_dorefa call on a gradient tensor
InitGrad ==
    /\ \E k \in BitWidths \ {NoQuant} :
          AfterCall([bitW |-> DefaultBITW, bitA |-> DefaultBITA, bitG |-> k])
    /\ arg \in GradTensors

NextGrad == \E s \in 1..2, i \in 1..2, m \in NoiseIndex : Backward(s, i, m)

SpecGrad == InitGrad /\ [][NextGrad]_vars

-----------------------------------------------------------------------------
(* Claims *)

\* C1 (SpecApi): after any number of get_dorefa calls with any triples,
\* "FGGrad" is registered exactly once, by the first call and by no later
\* one, no call raised the duplicate-registration KeyError, and GRAD_DEFINED
\* is true after every call.
C1_RegisteredOnce ==
    /\ Len(registry) = (IF ncalls >= 1 THEN 1 ELSE 0)
    /\ (ncalls >= 1 => GRAD_DEFINED)
    /\ last.op # "KeyError"
    /\ (last.op = "get_dorefa" => (last.registered <=> ncalls = 1))

C1_Witness ==
    /\ ncalls >= 2
    /\ last.op = "get_dorefa"
    /\ ~last.registered
    /\ last.bitG # registry[1]

\* C2 (SpecFn): with bitW = 1 and x not all zero, every element of fw(x) has
\* magnitude exactly E = mean(|x|), also where x is 0.
C2_BinaryMagnitude ==
    (last.op = "fw" /\ fns.bitW = 1 /\ SumAbs(arg) # 0)
        => \A i \in 1..Len(arg) :
              RatEq(RatAbs(last.out[i]), <<SumAbs(arg), Len(arg)>>)

\* C3 (SpecQuantize): for x = a/d in [0, 1], quantize(x, k) is j/n with
\* n = 2^k - 1 and j in 0..n, and no level is nearer to x:
\* |j/n - a/d| <= 1/(2n); quantize(0.3, 2) = 1/3 and quantize(0.6, 2) = 2/3.
C3_NearestLevel ==
    (last.op = "quantize" /\ arg[1] <= arg[2])
        => LET n == Pow2(last.k) - 1
               j == last.out[1]
           IN  /\ last.out[2] = n
               /\ j \in 0..n
               /\ 2 * Abs(j * arg[2] - arg[1] * n) <= arg[2]
               /\ (last.k = 2 /\ arg = <<3, 10>> => last.out = <<1, 3>>)
               /\ (last.k = 2 /\ arg = <<6, 10>> => last.out = <<2, 3>>)
               /\ (last.k = 2 /\ arg = <<10, 10>> => last.out = <<3, 3>>)
               /\ (last.k = 2 /\ arg = <<0, 10>> => last.out = <<0, 3>>)

C3_Witness ==
    /\ last.op = "quantize"
    /\ last.k = 2
    /\ arg = <<3, 10>>
    /\ last.out = <<1, 3>>

\* C4 (SpecQuantize): for x in [0, 1], quantizing the quantized value again
\* with the same k returns it unchanged.
C4_Idempotent ==
    (last.op = "quantize2" /\ arg[1] <= arg[2]) => RatEq(last.out, last.first)

C4_Witness ==
    /\ last.op = "quantize2"
    /\ last.k = 2
    /\ arg = <<6, 10>>
    /\ last.first = <<2, 3>>
    /\ last.out = <<2, 3>>

\* C5 (SpecFn): fw returns its input when bitW = 32, fa when bitA = 32 and
\* fg when bitG = 32, fg then without a gradient override, whatever the
\* other two bit-widths are.
C5_Identity32 ==
    /\ (last.op = "fw" /\ fns.bitW = NoQuant)
          => /\ Len(last.out) = Len(arg)
             /\ \A i \in 1..Len(arg) : last.out[i] = <<arg[i], 1>>
    /\ (last.op = "fa" /\ fns.bitA = NoQuant)
          => /\ Len(last.out) = Len(arg)
             /\ \A i \in 1..Len(arg) : last.out[i] = <<arg[i], 1>>
    /\ (last.op = "fg" /\ fns.bitG = NoQuant)
          => /\ Len(last.out.value) = Len(arg)
             /\ \A i \in 1..Len(arg) : last.out.value[i] = <<arg[i], 1>>
             /\ ~last.out.override

C5_Witness ==
    /\ last.op = "fw"
    /\ fns.bitW = NoQuant
    /\ fns.bitA # NoQuant
    /\ fns.bitG # NoQuant
    /\ arg = ExampleX
    /\ last.out[1] = <<0 - 2, 1>>

\* C6 (SpecApi): grad_fg raises its AssertionError exactly when the rank of
\* the incoming gradient is None; it then returns nothing and the exception
\* ends the process; with a known rank it returns a value.
C6_AssertRank ==
    last.op = "grad_fg"
        => /\ last.raised <=> (last.x.ndims = <<>>)
           /\ last.raised => (last.out = NoOutput /\ pc = "crashed")
           /\ ~last.raised => last.out # NoOutput

C6_Witness ==
    /\ last.op = "grad_fg"
    /\ last.x.ndims = <<>>
    /\ last.raised
    /\ pc = "crashed"

\* C7 (SpecApi): the backward rule reached through the fg of the latest
\* get_dorefa call returns what grad_fg computes with that call's bitG.
C7_OwnBitG ==
    (last.op = "grad_fg" /\ ~last.raised)
        => last.out \in grad_fg(last.x, last.s, last.i, last.m, fns.bitG)

\* C8 (Spec): while _build_graph has tf.get_variable patched, a variable is
\* passed through fw (once, the fw of this build) exactly if its name is W
\* and its layer is neither conv0 nor fc1.
C8_BinarizedIff ==
    (last.op = "get_variable" /\ last.during = "building")
        => last.fwApplied =
              (IF last.name = NameW /\ last.scope \notin {conv(0), fc1}
               THEN <<BITW>> ELSE <<>>)

C8_Witness ==
    /\ last.op = "get_variable"
    /\ last.during = "building"
    /\ last.scope = conv(1)
    /\ last.name = NameW
    /\ last.fwApplied = <<BITW>>

\* C9 (SpecGrad): with the closed-over bitG not 32 and the sample's maxx not
\* zero, every element grad_fg returns is (2j/n - 1) * maxx for some j in
\* 0..n, n = 2^bitG - 1, and so is at most maxx in magnitude.
C9_GradLattice ==
    (/\ last.op = "grad_fg"
     /\ ~last.raised
     /\ registry[1] # NoQuant
     /\ MaxAbsOf(last.x.samples[last.s]) # 0)
        => LET maxx == MaxAbsOf(last.x.samples[last.s])
               n == Pow2(registry[1]) - 1
           IN  /\ \E j \in 0..n : RatEq(last.out, <<(2 * j - n) * maxx, n>>)
               /\ RatLe(RatAbs(last.out), <<maxx, 1>>)

C9_Witness ==
    /\ last.op = "grad_fg"
    /\ ~last.raised
    /\ registry[1] = 2
    /\ last.x.samples = <<<<1, 0>>, <<2, 1>>>>
    /\ last.s = 2 /\ last.i = 2
    /\ RatEq(last.out, <<2, 3>>)

\* C10 (Spec): outside _build_graph tf.get_variable is the original function
\* again, however many builds returned; the wrappers never nest, and a
\* variable created outside _build_graph is not passed through fw.
C10_PatchScoped ==
    /\ pc = "idle" => tf_get_variable = <<>>
    /\ Len(tf_get_variable) <= 1
    /\ (last.op = "get_variable" /\ last.during = "idle") => last.fwApplied = <<>>

C10_Witness ==
    /\ ncalls >= 2
    /\ pc = "idle"
    /\ tf_get_variable = <<>>
    /\ last.op = "get_variable"
    /\ last.scope = conv(1)
    /\ last.name = NameW
    /\ last.fwApplied = <<>>

====
